---- MODULE Spec2Model ----
(***************************************************************************)
(* Model of risk_assessment.py, the IT risk assessment questionnaire.      *)
(*                                                                         *)
(* Text typed by the user and text built by the program is a sequence of   *)
(* one-character strings; fixed texts of the program that are never taken  *)
(* apart (domain names, risk labels, recommendations) are plain strings.   *)
(* A Python dict is a sequence of entries in insertion order.              *)
(***************************************************************************)
EXTENDS Integers, Sequences, FiniteSets, TLC

(***************************************************************************)
(* Bounds of the model.                                                    *)
(***************************************************************************)
\* Re-prompts counted per question before the model stops offering a
\* malformed reply (the code has no such limit).
MaxReprompts == 1
\* The clock readings datetime.now() may return are 0..MaxClock.
MaxClock == 1
\* get_risk_level is tried on the scores -Margin .. 100 + Margin.
Margin == 8

(***************************************************************************)
(* The question bank and the catalogs (module-level data).                 *)
(***************************************************************************)
RISK_DOMAINS ==
  << [domain |-> "Access Control & Identity Management",
      questions |-> << <<"Are privileged accounts reviewed and audited regularly?", TRUE>>,
                       <<"Is Multi-Factor Authentication (MFA) enforced for all users?", TRUE>>,
                       <<"Are access rights revoked promptly when staff leave?", TRUE>>,
                       <<"Is role-based access control (RBAC) implemented?", TRUE>>,
                       <<"Are shared/generic accounts prohibited?", TRUE>> >>],
     [domain |-> "Data Security & Privacy",
      questions |-> << <<"Is sensitive data encrypted at rest and in transit?", TRUE>>,
                       <<"Is a data classification policy in place?", TRUE>>,
                       <<"Are data retention and disposal policies enforced?", TRUE>>,
                       <<"Is GDPR or relevant data protection compliance maintained?", TRUE>>,
                       <<"Are data backup and recovery procedures tested regularly?", TRUE>> >>],
     [domain |-> "Network & Infrastructure Security",
      questions |-> << <<"Are firewalls and intrusion detection systems in place?", TRUE>>,
                       <<"Is network segmentation implemented?", TRUE>>,
                       <<"Are security patches applied within 30 days of release?", TRUE>>,
                       <<"Is remote access secured via VPN or Zero Trust architecture?", TRUE>>,
                       <<"Are vulnerability scans conducted at least quarterly?", TRUE>> >>],
     [domain |-> "Incident Response & Business Continuity",
      questions |-> << <<"Is there a documented and tested incident response plan?", TRUE>>,
                       <<"Are staff trained on incident reporting procedures?", TRUE>>,
                       <<"Is a Business Continuity Plan (BCP) in place and tested?", TRUE>>,
                       <<"Are critical system recovery time objectives (RTOs) defined?", TRUE>>,
                       <<"Are post-incident reviews conducted and documented?", TRUE>> >>],
     [domain |-> "Compliance & Governance",
      questions |-> << <<"Is there a current IT security policy approved by leadership?", TRUE>>,
                       <<"Are security awareness training sessions conducted annually?", TRUE>>,
                       <<"Is there a third-party/vendor risk management process?", TRUE>>,
                       <<"Are audit logs retained and regularly reviewed?", TRUE>>,
                       <<"Is there a formal risk register maintained?", TRUE>> >>] >>

RISK_LEVELS ==
  << [low |-> 90, high |-> 100, label |-> "LOW"],
     [low |-> 70, high |-> 89,  label |-> "MEDIUM-LOW"],
     [low |-> 50, high |-> 69,  label |-> "MEDIUM"],
     [low |-> 25, high |-> 49,  label |-> "HIGH"],
     [low |-> 0,  high |-> 24,  label |-> "CRITICAL"] >>

RECOMMENDATIONS ==
  [d \in {RISK_DOMAINS[k].domain : k \in 1..Len(RISK_DOMAINS)} |->
    CASE d = "Access Control & Identity Management" ->
           << "Implement a Privileged Access Management (PAM) solution.",
              "Enforce MFA across all systems, including legacy applications.",
              "Automate user offboarding through HR-IT integration.",
              "Conduct quarterly access reviews and recertification." >>
      [] d = "Data Security & Privacy" ->
           << "Adopt AES-256 encryption for data at rest; enforce TLS 1.2+ in transit.",
              "Deploy a Data Loss Prevention (DLP) solution.",
              "Establish a formal data retention schedule aligned to legal requirements.",
              "Register a Data Protection Officer (DPO) if processing personal data at scale." >>
      [] d = "Network & Infrastructure Security" ->
           << "Implement network micro-segmentation to limit lateral movement.",
              "Establish a patch management policy with defined SLAs.",
              "Adopt a Zero Trust Network Access (ZTNA) framework.",
              "Schedule automated vulnerability scans and remediate findings within SLA." >>
      [] d = "Incident Response & Business Continuity" ->
           << "Develop and table-top test an Incident Response Plan annually.",
              "Define and communicate escalation paths for security incidents.",
              "Test backup restoration procedures quarterly.",
              "Align BCP with ISO 22301 or equivalent standard." >>
      [] d = "Compliance & Governance" ->
           << "Review and update security policies annually or after major incidents.",
              "Deliver mandatory security awareness training using phishing simulations.",
              "Establish a third-party risk assessment process for all critical vendors.",
              "Implement a SIEM solution for centralised log management and alerting." >> ]

\* The placeholder of line 146, "Your Organisation".
DefaultOrg ==
  <<"Y","o","u","r"," ","O","r","g","a","n","i","s","a","t","i","o","n">>

(***************************************************************************)
(* Text helpers: str.strip, str.lower, int formatting, JSON leaves.        *)
(***************************************************************************)
Whitespace == {" ", "\t"}

UpperCase ==
  <<"A","B","C","D","E","F","G","H","I","J","K","L","M",
    "N","O","P","Q","R","S","T","U","V","W","X","Y","Z">>

LowerCase ==
  <<"a","b","c","d","e","f","g","h","i","j","k","l","m",
    "n","o","p","q","r","s","t","u","v","w","x","y","z">>

LowerChar(c) ==
  IF \E k \in 1..Len(UpperCase) : UpperCase[k] = c
  THEN LowerCase[CHOOSE k \in 1..Len(UpperCase) : UpperCase[k] = c]
  ELSE c

\* str.lower()
Lower(s) == [k \in 1..Len(s) |-> LowerChar(s[k])]

RECURSIVE LStrip(_)
LStrip(s) ==
  IF s # <<>> /\ Head(s) \in Whitespace THEN LStrip(Tail(s)) ELSE s

RECURSIVE RStrip(_)
RStrip(s) ==
  IF s # <<>> /\ s[Len(s)] \in Whitespace
  THEN RStrip(SubSeq(s, 1, Len(s) - 1))
  ELSE s

\* str.strip()
Strip(s) == RStrip(LStrip(s))

Digits == <<"0","1","2","3","4","5","6","7","8","9">>

RECURSIVE NatToStr(_)
NatToStr(n) ==
  IF n < 10 THEN <<Digits[n + 1]>>
  ELSE Append(NatToStr(n \div 10), Digits[(n % 10) + 1])

\* The decimal text of an integer, as str(n) and json.dump write it.
IntToStr(n) == IF n < 0 THEN <<"-">> \o NatToStr(-n) ELSE NatToStr(n)

DigitValue(c) == (CHOOSE k \in 1..Len(Digits) : Digits[k] = c) - 1

RECURSIVE StrToNat(_)
StrToNat(s) ==
  IF s = <<>> THEN 0
  ELSE 10 * StrToNat(SubSeq(s, 1, Len(s) - 1)) + DigitValue(s[Len(s)])

\* The integer a decimal text denotes, as json.load reads it.
StrToInt(s) ==
  IF s # <<>> /\ Head(s) = "-" THEN -StrToNat(Tail(s)) ELSE StrToNat(s)

RECURSIVE JsonEscape(_)
JsonEscape(s) ==
  IF s = <<>> THEN <<>>
  ELSE IF Head(s) \in {"\"", "\\"}
       THEN <<"\\", Head(s)>> \o JsonEscape(Tail(s))
       ELSE <<Head(s)>> \o JsonEscape(Tail(s))

RECURSIVE JsonUnescape(_)
JsonUnescape(s) ==
  IF s = <<>> THEN <<>>
  ELSE IF Head(s) = "\\" /\ Len(s) >= 2
       THEN <<s[2]>> \o JsonUnescape(SubSeq(s, 3, Len(s)))
       ELSE <<Head(s)>> \o JsonUnescape(Tail(s))

\* A string as json.dump writes it: quoted, quotes and backslashes escaped.
JsonStr(s) == <<"\"">> \o JsonEscape(s) \o <<"\"">>

\* The string a quoted JSON text denotes.
JsonParseStr(t) == JsonUnescape(SubSeq(t, 2, Len(t) - 1))

(***************************************************************************)
(* Pure functions of the program.                                          *)
(***************************************************************************)
\* BandMatches with the lower end of a band left out.
BandMatchesStrict(band, score) == band.low < score /\ score <= band.high

\* The test of line 107 on one band.
BandMatches(band, score) == band.low <= score /\ score <= band.high

\* get_risk_level: the label of the first band, in the table's order, that
\* holds the score; the sentinel when none does.  (The icon and the colour it
\* also returns are fixed by the label.)
get_risk_level(score) ==
  IF \E k \in 1..Len(RISK_LEVELS) : BandMatches(RISK_LEVELS[k], score)
  THEN LET first == CHOOSE k \in 1..Len(RISK_LEVELS) :
                      /\ BandMatches(RISK_LEVELS[k], score)
                      /\ \A j \in 1..(k - 1) : ~BandMatches(RISK_LEVELS[j], score)
       IN RISK_LEVELS[first].label
  ELSE "UNKNOWN"

\* Python's round() of the quotient n / den (den > 0): the nearest integer,
\* a tie going to the even neighbour.  The quotients the program rounds are
\* yes_count / 5 * 100 and sum / 5 with integer operands; both floats are the
\* exact integers (checked for yes_count in 0..5), so the rational is exact.
PyRound(n, den) ==
  LET q == n \div den
      r == n % den
  IN IF 2 * r < den THEN q
     ELSE IF 2 * r > den THEN q + 1
     ELSE IF q % 2 = 0 THEN q ELSE q + 1

\* DomainScore with the rounding applied before the scaling.
DomainScoreMisplaced(yes_count, total) == PyRound(yes_count, total) * 100

\* DomainScore without the division by the number of questions.
DomainScoreUndivided(yes_count, total) == yes_count * 100

\* Line 164: score = round((yes_count / total) * 100).
DomainScore(yes_count, total) == PyRound(yes_count * 100, total)

RECURSIVE SumScores(_)
SumScores(scores) ==
  IF scores = <<>> THEN 0
  ELSE scores[1].score + SumScores(Tail(scores))

\* OverallScore averaging over one entry too many.
OverallScoreWrongCount(domain_scores) ==
  PyRound(SumScores(domain_scores), Len(domain_scores) + 1)

\* Line 172: round(sum(domain_scores.values()) / len(domain_scores)).
OverallScore(domain_scores) == PyRound(SumScores(domain_scores), Len(domain_scores))

\* Python's int() of the quotient n / den: truncation toward zero.
PyInt(n, den) == IF n >= 0 THEN n \div den ELSE -((-n) \div den)

\* Python's str * count: nothing for a count below one.
Repeat(count) == IF count < 0 THEN 0 ELSE count

\* Lines 184-190: the line printed for one domain (the bar as the number of
\* filled and of empty segments).  The names of the bank are shorter than the
\* 42 characters domain[:42] keeps.
DomainLine(data) ==
  LET bar_filled == PyInt(data.score, 5)
  IN [domain |-> data.domain,
      score |-> data.score,
      label |-> get_risk_level(data.score),
      filled |-> Repeat(bar_filled),
      empty |-> Repeat(20 - bar_filled)]

\* IsWeak with the threshold itself counted as weak.
IsWeakInclusive(s) == s.score <= 70

\* Line 198: the entries of domain_scores that are weak.
IsWeak(s) == s.score < 70

weak_domains(domain_scores) == SelectSeq(domain_scores, IsWeak)

\* One step of a stable sort by score: x goes behind every entry whose score
\* is not greater.
InsertByScore(x, sorted) ==
  LET p == Cardinality({k \in 1..Len(sorted) : sorted[k].score <= x.score})
  IN SubSeq(sorted, 1, p) \o <<x>> \o SubSeq(sorted, p + 1, Len(sorted))

\* Line 201: sorted(weak_domains, key=weak_domains.get), a stable sort.
RECURSIVE SortedByScore(_)
SortedByScore(entries) ==
  IF entries = <<>> THEN <<>>
  ELSE InsertByScore(entries[Len(entries)],
                     SortedByScore(SubSeq(entries, 1, Len(entries) - 1)))

\* Line 203: RECOMMENDATIONS.get(domain, []).
RecommendationsFor(domain) ==
  IF domain \in DOMAIN RECOMMENDATIONS THEN RECOMMENDATIONS[domain] ELSE <<>>

\* Lines 199-208: the recommendation blocks printed, in order; none when no
\* domain is weak (the affirmative message is printed instead).
PriorityRecommendations(domain_scores) ==
  LET order == SortedByScore(weak_domains(domain_scores))
  IN [k \in 1..Len(order) |->
        [domain |-> order[k].domain,
         recs |-> RecommendationsFor(order[k].domain)]]

\* Lines 176-210: what generate_report prints.
Report(org_name, results, domain_scores, overall_score, risk_label, timestamp) ==
  [organisation |-> org_name,
   timestamp |-> timestamp,
   domains |-> [k \in 1..Len(results) |-> DomainLine(results[k])],
   overall_score |-> overall_score,
   risk_label |-> risk_label,
   recommendations |-> PriorityRecommendations(domain_scores),
   strong |-> weak_domains(domain_scores) = <<>>]

\* strftime of a clock reading: the seconds field, two digits.
StrfTime(t) == IF t < 10 THEN <<"0">> \o IntToStr(t) ELSE IntToStr(t)

\* Line 221: the name of the export file.
Filename(t) == <<"risk_report_">> \o StrfTime(t) \o <<".json">>

\* Lines 222-230: the document json.dump writes; its leaves are JSON texts.
JsonDump(org_name, results, overall_score, risk_label, timestamp) ==
  [organisation |-> JsonStr(org_name),
   timestamp |-> JsonStr(timestamp),
   overall_score |-> IntToStr(overall_score),
   overall_risk_level |-> JsonStr(<<risk_label>>),
   domain_results |->
     [k \in 1..Len(results) |->
        [domain |-> JsonStr(<<results[k].domain>>),
         score |-> IntToStr(results[k].score),
         answered_yes |-> IntToStr(results[k].answered_yes),
         total |-> IntToStr(results[k].total)]]]

\* What a JSON parser recovers from the exported document.
JsonLoad(doc) ==
  [organisation |-> JsonParseStr(doc.organisation),
   timestamp |-> JsonParseStr(doc.timestamp),
   overall_score |-> StrToInt(doc.overall_score),
   overall_risk_level |-> JsonParseStr(doc.overall_risk_level)[1],
   domain_results |->
     [k \in 1..Len(doc.domain_results) |->
        [domain |-> JsonParseStr(doc.domain_results[k].domain)[1],
         score |-> StrToInt(doc.domain_results[k].score),
         answered_yes |-> StrToInt(doc.domain_results[k].answered_yes),
         total |-> StrToInt(doc.domain_results[k].total)]]]

\* IsYes without the long form.
IsYesShortOnly(answer) == answer = <<"y">>

\* Lines 115-118: the replies ask_yes_no takes for yes and for no.
IsYes(answer) == answer \in {<<"y">>, <<"y","e","s">>}

IsNo(answer) == answer \in {<<"n">>, <<"n","o">>}

\* WantsExport taking the long form as well.
WantsExportLong(export) == export \in {<<"y">>, <<"y","e","s">>}

\* Line 214: the reply that opts in to the export.
WantsExport(export) == export = <<"y">>

(***************************************************************************)
(* State.                                                                  *)
(*                                                                         *)
(* Program state: pc (the input the process waits at, or where it ended),  *)
(* outcome, exit_code, the locals of run_assessment (org_name, d, i,       *)
(* yes_count, results, domain_scores) and of generate_report               *)
(* (overall_score, risk_label, timestamp), the clock, what was printed     *)
(* (screen, reprompts, export_prompts) and the export file.                *)
(* History: answered (the questions that got a valid answer, in order),    *)
(* h_yes and h_tally (the yes replies the user gave, counted from the      *)
(* typed text), export_called, fs_error.                                   *)
(* score_arg and level_ret belong to the harness of get_risk_level.        *)
(***************************************************************************)
VARIABLES pc, outcome, exit_code, org_name, d, i, yes_count, results,
          domain_scores, overall_score, risk_label, timestamp, clock,
          screen, reprompts, export_prompts, file,
          answered, h_yes, h_tally, export_called, fs_error,
          score_arg, level_ret

vars == <<pc, outcome, exit_code, org_name, d, i, yes_count, results,
          domain_scores, overall_score, risk_label, timestamp, clock,
          screen, reprompts, export_prompts, file,
          answered, h_yes, h_tally, export_called, fs_error,
          score_arg, level_ret>>

runVars == <<org_name, d, i, yes_count, results, domain_scores>>
reportVars == <<overall_score, risk_label, timestamp, clock, screen, export_prompts>>
exportVars == <<file, export_called, fs_error>>
historyVars == <<answered, h_yes, h_tally>>
harnessVars == <<score_arg, level_ret>>

(***************************************************************************)
(* What the user may type.                                                 *)
(***************************************************************************)
\* Replies to a question: two that mean yes, two that mean no, two that
\* are neither.
Replies ==
  { <<"y">>, <<" ","Y","E","S","\t">>,
    <<"N">>, <<"n","o"," ">>,
    <<"m","a","y","b","e">>, <<>> }

\* The replies of Replies that are a yes, and those that are a no, read off
\* the typed text.
YesTexts == { <<"y">>, <<" ","Y","E","S","\t">> }
NoTexts == { <<"N">>, <<"n","o"," ">> }

\* Replies to the organisation prompt: empty, blank, and a name with
\* surrounding blanks and a quote in it.
OrgReplies == { <<>>, <<" ","\t">>, <<" ","A","c","\"","e"," ">> }

\* Replies to the export prompt.
ExportReplies ==
  { <<"y">>, <<" ","Y","\t">>, <<"y","e","s">>, <<"n">>, <<>> }

\* The replies of ExportReplies that opt in, read off the typed text.
OptInTexts == { <<"y">>, <<" ","Y","\t">> }

\* input(...).strip().lower() (lines 114 and 213) of every reply offered.
Normalised == [reply \in Replies \cup ExportReplies |-> Lower(Strip(reply))]

(***************************************************************************)
(* The run: main -> run_assessment -> generate_report -> export_report.    *)
(***************************************************************************)
\* The process has started and waits at the organisation prompt (line 144).
Init ==
  /\ pc = "org_input"
  /\ outcome = "running"
  /\ exit_code = 0
  /\ org_name = <<>>
  /\ d = 1 /\ i = 1 /\ yes_count = 0
  /\ results = <<>> /\ domain_scores = <<>>
  /\ overall_score = 0 /\ risk_label = "" /\ timestamp = <<>> /\ clock = 0
  /\ screen = <<>> /\ reprompts = 0 /\ export_prompts = 0
  /\ file = <<>>
  /\ answered = <<>> /\ h_yes = 0 /\ h_tally = <<>>
  /\ export_called = FALSE /\ fs_error = FALSE
  /\ score_arg = 0 /\ level_ret = <<>>

\* Lines 144-151: the organisation name is read; the first question is asked.
OrgReply(reply) ==
  /\ pc = "org_input" /\ outcome = "running"
  /\ org_name' = IF Strip(reply) = <<>> THEN DefaultOrg ELSE Strip(reply)
  /\ results' = <<>> /\ domain_scores' = <<>>
  /\ d' = 1 /\ i' = 1 /\ yes_count' = 0
  /\ pc' = "ask_yes_no"
  /\ UNCHANGED <<outcome, exit_code, reprompts>>
  /\ UNCHANGED <<reportVars, exportVars, historyVars, harnessVars>>

\* Lines 159-166 after ask_yes_no returned `answer` for question i of domain d.
Answered(answer) ==
  LET total == Len(RISK_DOMAINS[d].questions)
      yc == IF answer THEN yes_count + 1 ELSE yes_count
      score == DomainScore(yc, total)
  IN IF i < total
     THEN /\ i' = i + 1
          /\ yes_count' = yc
          /\ UNCHANGED <<d, results, domain_scores, pc>>
     ELSE /\ domain_scores' =
               Append(domain_scores, [domain |-> RISK_DOMAINS[d].domain, score |-> score])
          /\ results' =
               Append(results, [domain |-> RISK_DOMAINS[d].domain, score |-> score,
                                answered_yes |-> yc, total |-> total])
          /\ IF d < Len(RISK_DOMAINS)
             THEN /\ d' = d + 1 /\ i' = 1 /\ yes_count' = 0
                  /\ pc' = pc
             ELSE /\ yes_count' = yc
                  /\ pc' = "generate_report"
                  /\ UNCHANGED <<d, i>>

\* The history of a valid answer to question i of domain d.
Noted(reply) ==
  LET total == Len(RISK_DOMAINS[d].questions)
      hy == IF reply \in YesTexts THEN h_yes + 1 ELSE h_yes
  IN /\ answered' = Append(answered, <<d, i>>)
     /\ IF i < total
        THEN h_yes' = hy /\ h_tally' = h_tally
        ELSE h_yes' = 0 /\ h_tally' = Append(h_tally, hy)

\* Lines 112-120 and 159-166: one reply at a question prompt.  A valid reply
\* is tallied and the run moves on; any other prints the warning and asks the
\* same question again.
AskReply(reply) ==
  /\ pc = "ask_yes_no" /\ outcome = "running"
  /\ LET answer == Normalised[reply]
     IN \/ /\ IsYes(answer)
           /\ Answered(TRUE)
           /\ Noted(reply)
           /\ reprompts' = 0
        \/ /\ ~IsYes(answer) /\ IsNo(answer)
           /\ Answered(FALSE)
           /\ Noted(reply)
           /\ reprompts' = 0
        \/ /\ ~IsYes(answer) /\ ~IsNo(answer)
           /\ reprompts < MaxReprompts
           /\ reprompts' = reprompts + 1
           /\ UNCHANGED <<pc, runVars, historyVars>>
  /\ UNCHANGED <<outcome, exit_code, org_name>>
  /\ UNCHANGED <<reportVars, exportVars, harnessVars>>

\* Lines 172-213: the report is computed and printed in one piece, then the
\* export prompt is shown.  t is the reading of datetime.now() at line 174.
GenerateReport(t) ==
  /\ pc = "generate_report" /\ outcome = "running"
  /\ LET overall == OverallScore(domain_scores)
         label == get_risk_level(overall)
     IN /\ overall_score' = overall
        /\ risk_label' = label
        /\ timestamp' = StrfTime(t)
        /\ screen' = <<Report(org_name, results, domain_scores, overall, label, StrfTime(t))>>
  /\ clock' = t
  /\ export_prompts' = export_prompts + 1
  /\ pc' = "export_input"
  /\ UNCHANGED <<outcome, exit_code, reprompts, runVars>>
  /\ UNCHANGED <<exportVars, historyVars, harnessVars>>

\* export_report stamping the document with its own reading of the clock.
export_reportRestamped(t, written) ==
  /\ export_called' = TRUE
  /\ clock' = t
  /\ IF written
     THEN /\ file' = <<[name |-> Filename(t),
                        content |-> JsonDump(org_name, results, overall_score,
                                             risk_label, StrfTime(t))]>>
          /\ outcome' = "complete"
          /\ pc' = "end"
          /\ UNCHANGED <<exit_code, fs_error>>
     ELSE /\ fs_error' = TRUE
          /\ outcome' = "traceback"
          /\ exit_code' = 1
          /\ pc' = "export_report"
          /\ UNCHANGED file

\* Lines 220-231: export_report.  t is the reading of datetime.now() at line
\* 221 and written tells whether open() and the write succeed; a failure
\* raises OSError, which nothing catches (main catches KeyboardInterrupt only),
\* so line 217 is not reached.
export_report(t, written) ==
  /\ export_called' = TRUE
  /\ clock' = t
  /\ IF written
     THEN /\ file' = <<[name |-> Filename(t),
                        content |-> JsonDump(org_name, results, overall_score,
                                             risk_label, timestamp)]>>
          /\ outcome' = "complete"
          /\ pc' = "end"
          /\ UNCHANGED <<exit_code, fs_error>>
     ELSE /\ fs_error' = TRUE
          /\ outcome' = "traceback"
          /\ exit_code' = 1
          /\ pc' = "export_report"
          /\ UNCHANGED file

\* Lines 213-217: the reply to the export prompt.  On "y" export_report runs;
\* on any other reply the run ends with the completion message.
ExportReply(reply) ==
  /\ pc = "export_input" /\ outcome = "running"
  /\ LET export == Normalised[reply]
     IN IF WantsExport(export)
        THEN \E t \in clock..MaxClock, written \in BOOLEAN : export_report(t, written)
        ELSE /\ outcome' = "complete"
             /\ pc' = "end"
             /\ UNCHANGED <<exit_code, clock, exportVars>>
  /\ UNCHANGED <<reprompts, runVars, historyVars, harnessVars>>
  /\ UNCHANGED <<overall_score, risk_label, timestamp, screen, export_prompts>>

\* Interrupt with the handler of main ending the process with status 1.
InterruptExitsNonZero ==
  /\ pc \in {"org_input", "ask_yes_no", "export_input"} /\ outcome = "running"
  /\ outcome' = "cancelled"
  /\ exit_code' = 1
  /\ UNCHANGED <<pc, reprompts, runVars>>
  /\ UNCHANGED <<reportVars, exportVars, historyVars, harnessVars>>

\* Lines 237-241: KeyboardInterrupt raised while input() waits unwinds to
\* main, which prints the cancellation message and returns.
Interrupt ==
  /\ pc \in {"org_input", "ask_yes_no", "export_input"} /\ outcome = "running"
  /\ outcome' = "cancelled"
  /\ UNCHANGED <<pc, exit_code, reprompts, runVars>>
  /\ UNCHANGED <<reportVars, exportVars, historyVars, harnessVars>>

Next ==
  \/ \E reply \in OrgReplies : OrgReply(reply)
  \/ \E reply \in Replies : AskReply(reply)
  \/ \E t \in clock..MaxClock : GenerateReport(t)
  \/ \E reply \in ExportReplies : ExportReply(reply)
  \/ Interrupt

Spec == Init /\ [][Next]_vars

(***************************************************************************)
(* get_risk_level applied to any integer near the range of scores.         *)
(***************************************************************************)
InitClassify ==
  /\ pc = "get_risk_level"
  /\ outcome = "running"
  /\ exit_code = 0
  /\ org_name = <<>>
  /\ d = 1 /\ i = 1 /\ yes_count = 0
  /\ results = <<>> /\ domain_scores = <<>>
  /\ overall_score = 0 /\ risk_label = "" /\ timestamp = <<>> /\ clock = 0
  /\ screen = <<>> /\ reprompts = 0 /\ export_prompts = 0
  /\ file = <<>>
  /\ answered = <<>> /\ h_yes = 0 /\ h_tally = <<>>
  /\ export_called = FALSE /\ fs_error = FALSE
  /\ score_arg \in (0 - Margin)..(100 + Margin)
  /\ level_ret = <<>>

\* Lines 105-109: one call of get_risk_level.
Classify ==
  /\ pc = "get_risk_level" /\ level_ret = <<>>
  /\ level_ret' = <<get_risk_level(score_arg)>>
  /\ UNCHANGED <<pc, outcome, exit_code, reprompts, score_arg>>
  /\ UNCHANGED <<runVars, reportVars, exportVars, historyVars>>

NextClassify == Classify

SpecClassify == InitClassify /\ [][NextClassify]_vars

(***************************************************************************)
(* generate_report applied to any results, not only those the question     *)
(* bank can produce: every domain has one of the scores of ScoreSamples.   *)
(***************************************************************************)
ScoreSamples == {0, 40, 69, 70, 100}

InitReport ==
  /\ pc = "generate_report"
  /\ outcome = "running"
  /\ exit_code = 0
  /\ org_name = DefaultOrg
  /\ d = Len(RISK_DOMAINS) /\ i = 1 /\ yes_count = 0
  /\ \E scores \in [1..Len(RISK_DOMAINS) -> ScoreSamples] :
       /\ domain_scores =
            [k \in 1..Len(RISK_DOMAINS) |->
               [domain |-> RISK_DOMAINS[k].domain, score |-> scores[k]]]
       /\ results =
            [k \in 1..Len(RISK_DOMAINS) |->
               [domain |-> RISK_DOMAINS[k].domain, score |-> scores[k],
                answered_yes |-> scores[k], total |-> 100]]
  /\ overall_score = 0 /\ risk_label = "" /\ timestamp = <<>> /\ clock = 0
  /\ screen = <<>> /\ reprompts = 0 /\ export_prompts = 0
  /\ file = <<>>
  /\ answered = <<>> /\ h_yes = 0 /\ h_tally = <<>>
  /\ export_called = FALSE /\ fs_error = FALSE
  /\ score_arg = 0 /\ level_ret = <<>>

NextReport ==
  \/ \E t \in clock..MaxClock : GenerateReport(t)
  \/ \E reply \in ExportReplies : ExportReply(reply)
  \/ Interrupt

SpecReport == InitReport /\ [][NextReport]_vars

(***************************************************************************)
(* Properties.                                                             *)
(***************************************************************************)
Abs(x) == IF x < 0 THEN 0 - x ELSE x

Labels == {"LOW", "MEDIUM-LOW", "MEDIUM", "HIGH", "CRITICAL"}

\* The questions in declared order: <<domain index, question index>>.
DeclaredOrder ==
  LET f[k \in 0..Len(RISK_DOMAINS)] ==
        IF k = 0 THEN <<>>
        ELSE f[k - 1] \o [q \in 1..Len(RISK_DOMAINS[k].questions) |-> <<k, q>>]
  IN f[Len(RISK_DOMAINS)]

\* Every question of the bank occurs exactly once in a sequence of questions.
EachOnce(qs) ==
  \A k \in 1..Len(RISK_DOMAINS) :
    \A q \in 1..Len(RISK_DOMAINS[k].questions) :
      Cardinality({j \in 1..Len(qs) : qs[j] = <<k, q>>}) = 1

\* The declared order names each of the 25 questions exactly once.
DeclaredOnce == Len(DeclaredOrder) = 25 /\ EachOnce(DeclaredOrder)

\* The scores of domain_scores, and their sum written out.
ScoreList == [k \in 1..Len(domain_scores) |-> domain_scores[k].score]

ScoreTotal ==
  LET f[k \in 0..Len(domain_scores)] ==
        IF k = 0 THEN 0 ELSE f[k - 1] + domain_scores[k].score
  IN f[Len(domain_scores)]

\* The position of a domain in the declared order.
DomainIndex(name) ==
  CHOOSE k \in 1..Len(RISK_DOMAINS) : RISK_DOMAINS[k].domain = name

\* The label the five bands give a score, written out.
BandLabel(s) ==
  CASE 90 <= s /\ s <= 100 -> "LOW"
    [] 70 <= s /\ s <= 89 -> "MEDIUM-LOW"
    [] 50 <= s /\ s <= 69 -> "MEDIUM"
    [] 25 <= s /\ s <= 49 -> "HIGH"
    [] 0 <= s /\ s <= 24 -> "CRITICAL"
    [] OTHER -> "UNKNOWN"

\* C1: every score in 0..100 lies in exactly one band of RISK_LEVELS, and
\* get_risk_level returns the label of that band (90..100 LOW, 70..89
\* MEDIUM-LOW, 50..69 MEDIUM, 25..49 HIGH, 0..24 CRITICAL); for an integer
\* outside 0..100 it returns UNKNOWN.
C1_Classifier ==
  /\ \A s \in 0..100 :
       Cardinality({k \in 1..Len(RISK_LEVELS) :
                      RISK_LEVELS[k].low <= s /\ s <= RISK_LEVELS[k].high}) = 1
  /\ level_ret # <<>> =>
       /\ level_ret[1] = BandLabel(score_arg)
       /\ (score_arg \in 0..100 <=> level_ret[1] \in Labels)
       /\ (score_arg \notin 0..100 <=> level_ret[1] = "UNKNOWN")

\* A lower band end has been classified.
C1_Witness == score_arg = 90 /\ level_ret = <<"LOW">>

\* C2: every stored DomainResult has total = the number of questions of its
\* domain, answered_yes = the number of yes replies the user gave in that
\* domain (between 0 and total), and score = the integer nearest to
\* 100 * answered_yes / total (3 of 5 gives 60); domain_scores holds the
\* same score for the domain.
C2_DomainResult ==
  /\ Len(results) = Len(h_tally)
  /\ Len(domain_scores) = Len(results)
  /\ \A k \in 1..Len(results) :
       LET r == results[k]
       IN /\ r.domain = RISK_DOMAINS[k].domain
          /\ r.total = Len(RISK_DOMAINS[k].questions)
          /\ r.answered_yes = h_tally[k]
          /\ 0 <= r.answered_yes /\ r.answered_yes <= r.total
          /\ 2 * Abs(r.score * r.total - 100 * r.answered_yes) <= r.total
          /\ (r.answered_yes = 3 /\ r.total = 5 => r.score = 60)
          /\ domain_scores[k] = [domain |-> r.domain, score |-> r.score]

\* A domain was finished with 3 yes replies out of 5.
C2_Witness ==
  \E k \in 1..Len(results) :
    /\ h_tally[k] = 3
    /\ results[k] = [domain |-> RISK_DOMAINS[k].domain, score |-> 60,
                     answered_yes |-> 3, total |-> 5]

\* C3: once generate_report has run, the overall score is the integer nearest
\* to the unweighted mean of the domain scores; scores 100,100,100,100,0 give
\* 80, yes to all questions gives 100 and LOW, no to all gives 0 and CRITICAL.
C3_OverallScore ==
  screen # <<>> =>
    /\ 2 * Abs(overall_score * Len(domain_scores) - ScoreTotal) <= Len(domain_scores)
    /\ screen[1].overall_score = overall_score
    /\ screen[1].risk_label = risk_label
    /\ (ScoreList = <<100, 100, 100, 100, 0>> => overall_score = 80)
    /\ (h_tally = <<5, 5, 5, 5, 5>> => overall_score = 100 /\ risk_label = "LOW")
    /\ (h_tally = <<0, 0, 0, 0, 0>> => overall_score = 0 /\ risk_label = "CRITICAL")

\* The report of a run with scores 100,100,100,100,0 shows 80.
C3_Witness ==
  /\ screen # <<>>
  /\ ScoreList = <<100, 100, 100, 100, 0>>
  /\ screen[1].overall_score = 80

\* C4: every domain score and the overall score lie in 0..100, and UNKNOWN is
\* neither shown in the report nor written to an export.
C4_NoUnknown ==
  /\ \A k \in 1..Len(results) : results[k].score \in 0..100
  /\ \A k \in 1..Len(domain_scores) : domain_scores[k].score \in 0..100
  /\ screen # <<>> =>
       /\ overall_score \in 0..100
       /\ screen[1].risk_label \in Labels
       /\ \A k \in 1..Len(screen[1].domains) : screen[1].domains[k].label \in Labels
  /\ file # <<>> => JsonLoad(file[1].content).overall_risk_level \in Labels

\* An export was written after a report with a domain at 100 and one at 0.
C4_Witness ==
  /\ file # <<>>
  /\ \E k \in 1..Len(results) : results[k].score = 100
  /\ \E k \in 1..Len(results) : results[k].score = 0
  /\ JsonLoad(file[1].content).overall_risk_level = "MEDIUM"

\* The state part of C5: the questions answered so far are a prefix of the
\* declared order, the question being asked is the next one, the tally is the
\* number of yes replies typed in the domain, and past the questions every
\* question has been answered exactly once.
C5_Inv ==
  /\ Len(answered) <= Len(DeclaredOrder)
  /\ answered = SubSeq(DeclaredOrder, 1, Len(answered))
  /\ (pc = "ask_yes_no" =>
        /\ Len(answered) < Len(DeclaredOrder)
        /\ DeclaredOrder[Len(answered) + 1] = <<d, i>>
        /\ yes_count = h_yes)
  /\ (pc \in {"generate_report", "export_input", "export_report", "end"} =>
        /\ answered = DeclaredOrder
        /\ DeclaredOnce)

\* The step part of C5: a reply that is a yes or a no is taken as the answer
\* to the question asked (a yes adds one to the tally of the domain, a no
\* adds nothing); any other reply leaves the question, its index and the
\* tally as they are and asks again.
C5_Step ==
  \A reply \in Replies :
    AskReply(reply) =>
      LET last == i = Len(RISK_DOMAINS[d].questions)
      IN /\ (reply \in YesTexts \cup NoTexts =>
               /\ answered' = Append(answered, <<d, i>>)
               /\ reprompts' = 0
               /\ (~last => /\ d' = d /\ i' = i + 1
                            /\ yes_count' = yes_count + (IF reply \in YesTexts THEN 1 ELSE 0))
               /\ (last => results'[d].answered_yes =
                             yes_count + (IF reply \in YesTexts THEN 1 ELSE 0)))
         /\ (reply \notin YesTexts \cup NoTexts =>
               /\ reprompts' = reprompts + 1
               /\ UNCHANGED <<pc, d, i, yes_count, results, domain_scores, answered>>)

\* C5: the questions are asked in declared domain and question order; "y" or
\* "yes" after trimming and lower-casing counts as yes, "n" or "no" as no, any
\* other reply asks the same question again with tally and position as they
\* were; a completed run has answered each of the 25 questions exactly once.
C5_PromptOrder == []C5_Inv /\ [][C5_Step]_vars

\* A question in the middle of the third domain is being asked again.
C5_Witness ==
  /\ pc = "ask_yes_no" /\ reprompts = 1
  /\ d = 3 /\ i = 2 /\ yes_count = 1
  /\ Len(answered) = 11

\* C6 as stated: a run cancelled at any input prompt ends without error, has
\* printed no report and has written no export file.
C6_NoReportWhenCancelled ==
  outcome = "cancelled" => exit_code = 0 /\ screen = <<>> /\ file = <<>>

\* C6 amended: a run cancelled at an input prompt ends without error and
\* writes no export file; cancelled at the organisation prompt or at a
\* question it has printed no report, and cancelled at the export prompt it
\* has printed the whole report (never a part of it).
C6_Cancelled ==
  outcome = "cancelled" =>
    /\ exit_code = 0
    /\ file = <<>> /\ ~export_called
    /\ pc \in {"org_input", "ask_yes_no", "export_input"}
    /\ (pc \in {"org_input", "ask_yes_no"} => screen = <<>>)
    /\ (pc = "export_input" =>
          /\ Len(screen) = 1
          /\ Len(screen[1].domains) = Len(RISK_DOMAINS)
          /\ screen[1].overall_score = overall_score)

\* A run was cancelled at the export prompt, the report on screen.
C6_Witness ==
  outcome = "cancelled" /\ pc = "export_input" /\ screen # <<>> /\ file = <<>>

\* C7: when the user opts in and writing the export file fails, the failure
\* is reported and the run still ends normally with the completion message.
C7_ExportFailureHandled ==
  fs_error => outcome = "complete" /\ exit_code = 0

\* C8: a domain is listed in the recommendations iff its score is below 70;
\* the listed domains are in ascending score order, equal scores in declared
\* domain order; each listed domain comes with all its recommendations in
\* catalog order; with no domain below 70 the affirmative message is printed
\* and no recommendation.
C8_Recommendations ==
  screen # <<>> =>
    LET listed == screen[1].recommendations
        scoreOf(name) == domain_scores[DomainIndex(name)].score
    IN /\ {listed[k].domain : k \in 1..Len(listed)} =
            {domain_scores[k].domain : k \in {j \in 1..Len(domain_scores) :
                                                domain_scores[j].score < 70}}
       /\ Cardinality({listed[k].domain : k \in 1..Len(listed)}) = Len(listed)
       /\ \A j, k \in 1..Len(listed) :
            j < k =>
              \/ scoreOf(listed[j].domain) < scoreOf(listed[k].domain)
              \/ /\ scoreOf(listed[j].domain) = scoreOf(listed[k].domain)
                 /\ DomainIndex(listed[j].domain) < DomainIndex(listed[k].domain)
       /\ \A k \in 1..Len(listed) :
            /\ listed[k].recs = RECOMMENDATIONS[listed[k].domain]
            /\ Len(listed[k].recs) = 4
       /\ (screen[1].strong <=> listed = <<>>)
       /\ (screen[1].strong <=> \A k \in 1..Len(domain_scores) : domain_scores[k].score >= 70)
       /\ (ScoreList = <<0, 0, 0, 0, 0>> =>
             [k \in 1..Len(listed) |-> listed[k].domain] =
               [k \in 1..Len(RISK_DOMAINS) |-> RISK_DOMAINS[k].domain])

\* A report for scores 70, 69, 0, 69, 100 lists the third, second and fourth
\* domain, in this order.
C8_Witness ==
  /\ screen # <<>>
  /\ ScoreList = <<70, 69, 0, 69, 100>>
  /\ [k \in 1..Len(screen[1].recommendations) |-> screen[1].recommendations[k].domain] =
       <<RISK_DOMAINS[3].domain, RISK_DOMAINS[2].domain, RISK_DOMAINS[4].domain>>

\* C9: parsing a written export file recovers the organisation name, the
\* timestamp, the overall score, the overall risk label and the per-domain
\* scores the report of the run showed, and per domain the record
\* {score, answered_yes, total} the report was printed from.
C9_ExportRoundTrip ==
  file # <<>> =>
    LET doc == JsonLoad(file[1].content)
        shown == screen[1]
    IN /\ Len(screen) = 1
       /\ doc.organisation = shown.organisation
       /\ doc.timestamp = shown.timestamp
       /\ doc.overall_score = shown.overall_score
       /\ doc.overall_risk_level = shown.risk_label
       /\ Len(doc.domain_results) = Len(shown.domains)
       /\ \A k \in 1..Len(shown.domains) :
            /\ doc.domain_results[k].domain = shown.domains[k].domain
            /\ doc.domain_results[k].score = shown.domains[k].score
       /\ doc.domain_results = results

\* An export was written later than the report was stamped, for a name with
\* a quote in it.
C9_Witness ==
  /\ file # <<>>
  /\ org_name = <<"A","c","\"","e">>
  /\ timestamp = <<"0","0">>
  /\ file[1].name = <<"risk_report_", "0", "1", ".json">>

\* The state part of C10: the export prompt is shown at most once, only with
\* the report on screen, and once in every completed run; a file exists only
\* if export_report was called.
C10_Inv ==
  /\ export_prompts <= 1
  /\ (export_prompts = 1 <=> screen # <<>>)
  /\ (outcome = "complete" => export_prompts = 1 /\ Len(screen) = 1)
  /\ (file # <<>> => export_called)

\* The step part of C10: export_report is called iff the reply, trimmed and
\* lower-cased, is "y"; any other reply ends the run with the completion
\* message, asks nothing again and writes no file.
C10_Step ==
  \A reply \in ExportReplies :
    ExportReply(reply) =>
      /\ export_prompts' = export_prompts
      /\ (reply \in OptInTexts <=> export_called')
      /\ (reply \notin OptInTexts =>
            /\ outcome' = "complete" /\ pc' = "end" /\ exit_code' = 0
            /\ file' = <<>>)

\* C10: the export prompt is asked once per completed run, after the report;
\* export_report is called iff the trimmed, lower-cased reply is exactly "y";
\* every other reply ends the run with the completion message, with no
\* re-prompt and no file.
C10_ExportPrompt == []C10_Inv /\ [][C10_Step]_vars

\* A run completed after the export was declined.
C10_Witness ==
  outcome = "complete" /\ ~export_called /\ file = <<>> /\ export_prompts = 1

====
